---- MODULE Spec2Model ----
(***************************************************************************)
(* Model of build_ebook_v2.py: the directory walk that collects the        *)
(* Markdown files of a language, the derivation of prefix and title from   *)
(* the entry names, the sort on prefix, the four regular-expression        *)
(* substitutions and the main loop over the languages.                     *)
(*                                                                         *)
(* A Python str is a sequence of one-character strings, so that every      *)
(* substitution, split and comparison is computed character by character.  *)
(***************************************************************************)
EXTENDS Integers, Sequences, FiniteSets, TLC

\* ------------------------------------------------------------------ text

\* The characters of the model in code-point order: line feed, then the
\* printable ASCII characters from the space to the tilde (the grave accent,
\* which no name or text of the model uses, is left out).
Chars ==
  <<"\n", " ", "!", "\"", "#", "$", "%", "&", "'", "(", ")", "*", "+", ",",
    "-", ".", "/", "0", "1", "2", "3", "4", "5", "6", "7", "8", "9", ":",
    ";", "<", "=", ">", "?", "@", "A", "B", "C", "D", "E", "F", "G", "H",
    "I", "J", "K", "L", "M", "N", "O", "P", "Q", "R", "S", "T", "U", "V",
    "W", "X", "Y", "Z", "[", "\\", "]", "^", "_", "a", "b", "c", "d",
    "e", "f", "g", "h", "i", "j", "k", "l", "m", "n", "o", "p", "q", "r",
    "s", "t", "u", "v", "w", "x", "y", "z", "{", "|", "}", "~">>

CharSet == {Chars[i] : i \in 1..Len(Chars)}

\* Rank of a character in code-point order (what str comparison compares).
Ord == [c \in CharSet |-> CHOOSE i \in 1..Len(Chars) : Chars[i] = c]

\* Distance in Chars from an upper-case letter to its lower-case letter.
CaseOffset == Ord["a"] - Ord["A"]

\* str.lower() on one character.
LowerChar(c) ==
  IF Ord[c] >= Ord["A"] /\ Ord[c] <= Ord["Z"] THEN Chars[Ord[c] + CaseOffset] ELSE c

\* str.lower()
lower(s) == [i \in 1..Len(s) |-> LowerChar(s[i])]

\* s[i:] of Python for the 1-based position i.
From(s, i) == SubSeq(s, i, Len(s))

\* Whether the literal pat occurs in s at position i.
MatchAt(s, pat, i) ==
  /\ i >= 1
  /\ i + Len(pat) - 1 <= Len(s)
  /\ SubSeq(s, i, i + Len(pat) - 1) = pat

\* Python's str < str: the first differing character decides, a proper
\* initial segment is smaller.
RECURSIVE StrLess(_, _)
StrLess(a, b) ==
  IF b = <<>> THEN FALSE
  ELSE IF a = <<>> THEN TRUE
  ELSE IF a[1] = b[1] THEN StrLess(Tail(a), Tail(b))
  ELSE Ord[a[1]] < Ord[b[1]]

\* re.sub(pat, rep, s) for a pattern that is a literal: the leftmost
\* occurrences, not overlapping, scanned from position i.
RECURSIVE SubLiteralFrom(_, _, _, _)
SubLiteralFrom(pat, rep, s, i) ==
  IF i > Len(s) THEN <<>>
  ELSE IF MatchAt(s, pat, i) THEN rep \o SubLiteralFrom(pat, rep, s, i + Len(pat))
  ELSE <<s[i]>> \o SubLiteralFrom(pat, rep, s, i + 1)

SubLiteral(pat, rep, s) == SubLiteralFrom(pat, rep, s, 1)

\* str.split(sep) for a one-character separator: empty tokens are kept, the
\* result always has at least one token.
RECURSIVE SplitFrom(_, _, _, _)
SplitFrom(s, sep, i, cur) ==
  IF i > Len(s) THEN <<cur>>
  ELSE IF s[i] = sep THEN <<cur>> \o SplitFrom(s, sep, i + 1, <<>>)
  ELSE SplitFrom(s, sep, i + 1, Append(cur, s[i]))

split(s, sep) == SplitFrom(s, sep, 1, <<>>)

\* sep.join(tokens)
RECURSIVE join(_, _)
join(sep, toks) ==
  IF toks = <<>> THEN <<>>
  ELSE IF Len(toks) = 1 THEN toks[1]
  ELSE toks[1] \o sep \o join(sep, Tail(toks))

\* ------------------------------------------------- the reference rewriter

PatImages == <<"/", "i", "m", "a", "g", "e", "s", "/">>
RepImages == <<"i", "m", "a", "g", "e", "s", "/">>
PatSvg == <<".", "s", "v", "g">>
RepPng == <<".", "p", "n", "g">>
PatRootLink == <<"]", "(", "/">>
RepRootLink ==
  <<"]", "(", "h", "t", "t", "p", "s", ":", "/", "/", "v", "u", "l", "k", "a",
    "n", "-", "t", "u", "t", "o", "r", "i", "a", "l", ".", "c", "o", "m", "/">>
PatChapterOpen == <<"]", "(", "!">>

\* content = re.sub(r'\/images\/', 'images/', content)
FixImagePaths(text) == SubLiteral(PatImages, RepImages, text)

\* content = re.sub(r'\.svg', '.png', content)
FixSvg(text) == SubLiteral(PatSvg, RepPng, text)

\* content = re.sub(r'\]\(\/', '](https://vulkan-tutorial.com/', content)
FixRelativeLinksEveryLink(text) ==
  SubLiteral(<<"]", "(">>, <<"]", "(", "h", "t", "t", "p", "s", ":", "/", "/">>, text)

FixRelativeLinks(text) == SubLiteral(PatRootLink, RepRootLink, text)

\* The position of the first ")" of s at or after position i, 0 if none.
RECURSIVE NextClose(_, _)
NextClose(s, i) ==
  IF i > Len(s) THEN 0
  ELSE IF s[i] = ")" THEN i
  ELSE NextClose(s, i + 1)

\* Where a match of r'\]\(!([^)]+)\)' that starts at position i ends, 0 if
\* there is no match at i: "](!" , then every character up to the next ")"
\* (at least one, a line feed included), then that ")".
ChapterRefEnd(s, i) ==
  IF ~MatchAt(s, PatChapterOpen, i) THEN 0
  ELSE LET j == NextClose(s, i + 3)
       IN  IF j > i + 3 THEN j ELSE 0

\* target.split('/')[-1]
LastSegment(target) ==
  LET parts == split(target, "/") IN parts[Len(parts)]

\* The function repl of generate_markdown_from_sources, on match.group(1).
replLowerMissing(target) ==
  <<"]", "(", "#">> \o LastSegment(SubLiteral(<<"_">>, <<"-">>, target)) \o <<")">>

replFirstSegment(target) ==
  <<"]", "(", "#">> \o split(SubLiteral(<<"_">>, <<"-">>, lower(target)), "/")[1] \o <<")">>

repl(target) ==
  <<"]", "(", "#">> \o LastSegment(SubLiteral(<<"_">>, <<"-">>, lower(target))) \o <<")">>

\* content = re.sub(r'\]\(!([^)]+)\)', repl, content)
RECURSIVE FixChapterRefsFrom(_, _)
FixChapterRefsFrom(s, i) ==
  IF i > Len(s) THEN <<>>
  ELSE LET j == ChapterRefEnd(s, i)
       IN  IF j > 0
           THEN repl(SubSeq(s, i + 3, j - 1)) \o FixChapterRefsFrom(s, j + 1)
           ELSE <<s[i]>> \o FixChapterRefsFrom(s, i + 1)

FixChapterRefs(text) == FixChapterRefsFrom(text, 1)

\* Lines 152-167 as one function of the text they are given.
Rewrite(text) ==
  FixChapterRefs(FixRelativeLinks(FixSvg(FixImagePaths(text))))

\* ------------------------------------------------ names, prefix and title

\* pathlib's PurePath.stem: the name without its last suffix; a dot that
\* leads or ends the name starts no suffix.
LastDot(name) ==
  LET dots == {i \in 1..Len(name) : name[i] = "."}
  IN  IF dots = {} THEN 0 ELSE CHOOSE i \in dots : \A j \in dots : j <= i

stem(name) ==
  LET i == LastDot(name)
  IN  IF i > 1 /\ i < Len(name) THEN SubSeq(name, 1, i - 1) ELSE name

\* title_tokens = entry.stem.replace('_', ' ').split(" ")
TitleTokens(name_stem) == split(SubLiteral(<<"_">>, <<" ">>, name_stem), " ")

\* prefix = f"{parent_prefix}{title_tokens[0]}."
prefix_without_parent(parent_prefix, toks) == toks[1] \o <<".">>

prefix(parent_prefix, toks) == parent_prefix \o toks[1] \o <<".">>

\* title = ' '.join(title_tokens[1:])
title_with_ordering_token(toks) == join(<<" ">>, toks)

title(toks) == join(<<" ">>, Tail(toks))

\* VTEMarkdownFile(content, depth, prefix, title)
VTEMarkdownFile(text, depth, pre, ttl) ==
  [content |-> text, depth |-> depth, prefix |-> pre, title |-> ttl]

\* ------------------------------------------------------- the content trees

\* A content tree is the set of its entries, each with its path below the
\* language root (a sequence of names); a file carries its text.
FileEntry(path, text) == [path |-> path, is_dir |-> FALSE, content |-> text]
DirEntry(path) == [path |-> path, is_dir |-> TRUE, content |-> <<>>]

\* pathlib.Path(directory_path).iterdir(): the entries directly below a path.
iterdir(tree, directory_path) ==
  {e \in tree : /\ Len(e.path) = Len(directory_path) + 1
                /\ SubSeq(e.path, 1, Len(directory_path)) = directory_path}

Name(e) == e.path[Len(e.path)]

\* --------------------------------------------------- the bounded inputs

\* The largest number of entries (files and directories) of the two
\* language trees together.
MaxEntries == 3

IntroductionMd ==
  <<"1", "_", "I", "n", "t", "r", "o", "d", "u", "c", "t", "i", "o", "n", ".", "m", "d">>
InstallMd == <<"1", "_", "I", "n", "s", "t", "a", "l", "l", ".", "m", "d">>
SvgMd == <<"1", "-", "1", "_", "x", ".", "s", "v", "g", ".", "m", "d">>
TenMd == <<"1", "0", "_", "Z", ".", "m", "d">>
SetupDir == <<"2", "_", "S", "e", "t", "u", "p">>
PartDir == <<"1", "_", "P", "a", "r", "t">>

IntroductionText ==
  <<"H", "e", "l", "l", "o", " ", "[", "t", "h", "e", "r", "e", "]", "(", "!", "/",
    "2", "_", "S", "e", "t", "u", "p", ")">>
InstallText == <<"I", "n", "s", "t", "a", "l", "l", " ", "s", "t", "e", "p", "s", ".">>
SvgText ==
  <<"!", "[", "d", "]", "(", "/", "i", "m", "a", "g", "e", "s", "/", "d", ".", "s", "v", "g", ")">>

CodeText ==
  <<"[", "c", "]", "(", "/", "c", "o", "d", "e", "/", "z", ".", "c", "p", "p", ")">>

FileNames == {IntroductionMd, InstallMd, SvgMd, TenMd}
DirNames == {SetupDir, PartDir}

\* The text of the file of a given name.
TextOf(name) ==
  IF name = IntroductionMd THEN IntroductionText
  ELSE IF name = InstallMd THEN InstallText
  ELSE IF name = TenMd THEN CodeText
  ELSE SvgText

\* The entries that can be added to a tree: a file or a directory directly
\* below the root or below a directory of the tree, at a path not yet taken.
Addable(tree) ==
  LET parents == {<<>>} \cup {d.path : d \in {e \in tree : e.is_dir}}
      taken == {e.path : e \in tree}
      files == {FileEntry(Append(q, n), TextOf(n)) : q \in parents, n \in FileNames}
      dirs == {DirEntry(Append(q, n)) : q \in parents, n \in DirNames}
  IN  {e \in files \cup dirs : e.path \notin taken}

\* Every content tree of at most k entries.
RECURSIVE TreesUpTo(_)
TreesUpTo(k) ==
  IF k = 0 THEN {{}}
  ELSE LET smaller == TreesUpTo(k - 1)
       IN  smaller \cup UNION {{t \cup {e} : e \in Addable(t)} : t \in smaller}

Trees == TreesUpTo(MaxEntries)

\* The destination: a file with its text, or Absent when there is none.
Absent == [exists |-> FALSE, text |-> <<>>]
File(text) == [exists |-> TRUE, text |-> text]
OldDocument == <<"o", "l", "d">>

\* ------------------------------------------------------ the build (main)

\* LANGUAGES = [ "en", "fr" ]
LANGUAGES == <<"en", "fr">>

VARIABLES
  fs,              \* the content tree of each language
  out,             \* the file OUTPUT_FILENAME
  lang,            \* the position of the loop of main in LANGUAGES
  pc,              \* where the program is
  stack,           \* the active calls of _process_files_in_directory
  markdown_files,  \* the accumulator of the walk
  md_files,        \* the sorted fragments of generate_markdown_from_sources
  out_at_call,     \* what the destination held when the running call began
  error,           \* the exception that ended the run, "none" if none
  source,          \* the rewriter alone: the text it is given
  content,         \* the rewriter alone: the variable content of lines 149-167
  substitutions,   \* the rewriter alone: how many of the four re.sub are done
  entry_stem,      \* the name parser alone: entry.stem
  title_tokens,    \* the name parser alone: title_tokens
  entry_title,     \* the name parser alone: title
  parsed           \* the name parser alone: how many of its statements are done

build == <<fs, out, lang, pc, stack, markdown_files, md_files, out_at_call, error>>
rewriter == <<source, content, substitutions>>
parser == <<entry_stem, title_tokens, entry_title, parsed>>
vars == <<build, rewriter, parser>>

\* The rewriter and the name parser when they are not run on their own.
RewriterIdle == source = <<>> /\ content = <<>> /\ substitutions = 0
ParserIdle == entry_stem = <<>> /\ title_tokens = <<>> /\ entry_title = <<>> /\ parsed = 0

\* The frame of one call of _process_files_in_directory; todo holds the
\* entries iterdir() has not yielded yet.
Frame(tree, directory_path, current_depth, parent_prefix) ==
  [directory_path |-> directory_path,
   todo |-> iterdir(tree, directory_path),
   current_depth |-> current_depth,
   parent_prefix |-> parent_prefix]

Top == stack[Len(stack)]

\* The stack with entry e taken from the iteration of its top frame.
Yielded(e) == [stack EXCEPT ![Len(stack)].todo = @ \ {e}]

\* if markdown_files is None: markdown_files = list[VTEMarkdownFile]()
FreshAccumulatorShared(previous) == previous

FreshAccumulator(previous) == <<>>

Init ==
  /\ fs \in {f \in [{"en", "fr"} -> Trees] :
               Cardinality(f["en"]) + Cardinality(f["fr"]) <= MaxEntries}
  /\ out \in {Absent, File(OldDocument)}
  /\ lang = 1
  /\ pc = "main"
  /\ stack = <<>>
  /\ markdown_files = <<>>
  /\ md_files = <<>>
  /\ out_at_call = out
  /\ error = "none"
  /\ RewriterIdle
  /\ ParserIdle

\* for lang in LANGUAGES: eBookBuilder.generate_markdown_from_sources(lang, ...)
\* up to the top-level call of the walk.
CallGenerate ==
  /\ pc = "main"
  /\ lang <= Len(LANGUAGES)
  /\ pc' = "walk"
  /\ stack' = <<Frame(fs[LANGUAGES[lang]], <<>>, 0, <<>>)>>
  /\ markdown_files' = FreshAccumulator(markdown_files)
  /\ out_at_call' = out
  /\ UNCHANGED <<rewriter, parser, fs, out, lang, md_files, error>>

\* One iteration of the loop of the walk on a directory: the recursive call.
ProcessDirectory ==
  /\ pc = "walk"
  /\ \E e \in Top.todo :
       /\ e.is_dir
       /\ LET toks == TitleTokens(stem(Name(e)))
              pre == prefix(Top.parent_prefix, toks)
          IN  stack' = Append(Yielded(e),
                              Frame(fs[LANGUAGES[lang]], e.path, Top.current_depth + 1, pre))
  /\ UNCHANGED <<rewriter, parser, fs, out, lang, pc, markdown_files, md_files, out_at_call, error>>

\* One iteration of the loop of the walk on a file that is read.
ProcessFile ==
  /\ pc = "walk"
  /\ \E e \in Top.todo :
       /\ ~e.is_dir
       /\ LET toks == TitleTokens(stem(Name(e)))
              pre == prefix(Top.parent_prefix, toks)
          IN  markdown_files' =
                Append(markdown_files,
                       VTEMarkdownFile(e.content, Top.current_depth, pre, title(toks)))
       /\ stack' = Yielded(e)
  /\ UNCHANGED <<rewriter, parser, fs, out, lang, pc, md_files, out_at_call, error>>

\* open(entry) or file.read() raises: nothing catches it, the run ends.
ReadErrorSkipped ==
  /\ pc = "walk"
  /\ \E e \in Top.todo : ~e.is_dir /\ stack' = Yielded(e)
  /\ error' = "read"
  /\ UNCHANGED <<rewriter, parser, fs, out, lang, pc, markdown_files, md_files, out_at_call>>

ReadError ==
  /\ pc = "walk"
  /\ \E e \in Top.todo : ~e.is_dir
  /\ pc' = "raised"
  /\ error' = "read"
  /\ UNCHANGED <<rewriter, parser, fs, out, lang, stack, markdown_files, md_files, out_at_call>>

\* The loop of a call of the walk ends: return markdown_files.
ReturnFromDirectory ==
  /\ pc = "walk"
  /\ Top.todo = {}
  /\ stack' = SubSeq(stack, 1, Len(stack) - 1)
  /\ pc' = IF Len(stack) = 1 THEN "assemble" ELSE "walk"
  /\ UNCHANGED <<rewriter, parser, fs, out, lang, markdown_files, md_files, out_at_call, error>>

\* sorted(md_files, key=lambda file: file.prefix): a stable sort, so an entry
\* goes behind every entry whose prefix is not greater than its own.
RECURSIVE InsertByPrefix(_, _)
InsertByPrefix(done, entry) ==
  IF done = <<>> THEN <<entry>>
  ELSE IF StrLess(entry.prefix, done[1].prefix) THEN <<entry>> \o done
  ELSE <<done[1]>> \o InsertByPrefix(Tail(done), entry)

RECURSIVE SortedFrom(_, _, _)
SortedFrom(files, i, done) ==
  IF i > Len(files) THEN done
  ELSE SortedFrom(files, i + 1, InsertByPrefix(done, files[i]))

sorted_not_sorting(files) == files

sorted(files) == SortedFrom(files, 1, <<>>)

\* The body of the loop over md_files: the heading, the text, the four
\* substitutions on both, and the blank line that ends the section.
Section(entry) ==
  Rewrite(<<"#", " ">> \o entry.title \o <<"\n", "\n">> \o entry.content)
    \o <<"\n", "\n">>

\* temp_markdown after the loop over md_files.
RECURSIVE temp_markdown(_)
temp_markdown(files) ==
  IF files = <<>> THEN <<>>
  ELSE Section(files[1]) \o temp_markdown(Tail(files))

\* The walk has returned: sort, build temp_markdown, open the destination
\* and write it.
Assemble ==
  /\ pc = "assemble"
  /\ md_files' = sorted(markdown_files)
  /\ out' = File(temp_markdown(md_files'))
  /\ pc' = "written"
  /\ UNCHANGED <<rewriter, parser, fs, lang, stack, markdown_files, out_at_call, error>>

\* The same, with the destination failing: open() raises and leaves the
\* file as it was, or write() raises after open() has truncated the file.
WriteError ==
  /\ pc = "assemble"
  /\ md_files' = sorted(markdown_files)
  /\ out' \in {out, File(<<>>)}
  /\ pc' = "raised"
  /\ error' = "write"
  /\ UNCHANGED <<rewriter, parser, fs, lang, stack, markdown_files, out_at_call>>

\* OUTPUT_FILENAME.unlink(), and the loop of main goes to the next language.
Unlink ==
  /\ pc = "written"
  /\ out' = Absent
  /\ lang' = lang + 1
  /\ pc' = "main"
  /\ UNCHANGED <<rewriter, parser, fs, stack, markdown_files, md_files, out_at_call, error>>

\* The loop of main is over.
Finish ==
  /\ pc = "main"
  /\ lang > Len(LANGUAGES)
  /\ pc' = "done"
  /\ UNCHANGED <<rewriter, parser, fs, out, lang, stack, markdown_files, md_files, out_at_call, error>>

Next ==
  \/ CallGenerate
  \/ ProcessDirectory
  \/ ProcessFile
  \/ ReadError
  \/ ReturnFromDirectory
  \/ Assemble
  \/ WriteError
  \/ Unlink
  \/ Finish

Spec == Init /\ [][Next]_vars

\* The build when the rewriter or the name parser is run on its own.
BuildIdle ==
  /\ fs = [l \in {"en", "fr"} |-> {}]
  /\ out = Absent
  /\ lang = 1
  /\ pc = "idle"
  /\ stack = <<>>
  /\ markdown_files = <<>>
  /\ md_files = <<>>
  /\ out_at_call = Absent
  /\ error = "none"

\* ------------------------------------------------- the rewriter on its own

\* The largest number of pieces a text given to the rewriter is made of.
MaxPieces == 4

\* The pieces: the openers of a chapter reference and of a link, the parts
\* of the image directory and of the image extension, a path segment with
\* an upper-case letter and an underscore, a closing parenthesis, a letter.
Pieces ==
  { <<"]", "(", "!">>, <<"]", "(">>, <<"/">>, <<"i", "m", "a", "g", "e", "s", "/">>,
    <<".", "s", "v", "g">>, <<"a", "_", "B">>, <<")">>, <<"z">> }

\* The example of a chapter reference: ](!/path/to/Some_Chapter)
ExampleReference ==
  <<"]", "(", "!", "/", "p", "a", "t", "h", "/", "t", "o", "/", "S", "o", "m", "e",
    "_", "C", "h", "a", "p", "t", "e", "r", ")">>

\* Every text made of at most k pieces.
RECURSIVE TextsUpTo(_)
TextsUpTo(k) ==
  IF k = 0 THEN {<<>>}
  ELSE LET shorter == TextsUpTo(k - 1)
       IN  shorter \cup {t \o q : t \in shorter, q \in Pieces}

Texts == TextsUpTo(MaxPieces) \cup {ExampleReference}

InitRewrite ==
  /\ source \in Texts
  /\ content = source
  /\ substitutions = 0
  /\ BuildIdle
  /\ ParserIdle

\* content = re.sub(r'\/images\/', 'images/', content)
SubImages ==
  /\ pc = "idle"
  /\ substitutions = 0
  /\ parsed = 0
  /\ content' = FixImagePaths(content)
  /\ substitutions' = 1
  /\ UNCHANGED <<build, parser, source>>

\* content = re.sub(r'\.svg', '.png', content)
SubSvg ==
  /\ substitutions = 1
  /\ content' = FixSvg(content)
  /\ substitutions' = 2
  /\ UNCHANGED <<build, parser, source>>

\* content = re.sub(r'\]\(\/', '](https://vulkan-tutorial.com/', content)
SubRelativeLinks ==
  /\ substitutions = 2
  /\ content' = FixRelativeLinks(content)
  /\ substitutions' = 3
  /\ UNCHANGED <<build, parser, source>>

\* content = re.sub(r'\]\(!([^)]+)\)', repl, content)
SubChapterRefs ==
  /\ substitutions = 3
  /\ content' = FixChapterRefs(content)
  /\ substitutions' = 4
  /\ UNCHANGED <<build, parser, source>>

NextRewrite ==
  \/ SubImages
  \/ SubSvg
  \/ SubRelativeLinks
  \/ SubChapterRefs

SpecRewrite == InitRewrite /\ [][NextRewrite]_vars

\* The rewriter has run on source and content holds the rewritten text.
Rewritten == substitutions = 4

\* ---------------------------------------------- the name parser on its own

\* The largest length of an entry stem given to the name parser.
MaxStemLen == 5

\* The characters of the stems: an ordering digit, two letters and the two
\* separators.
StemChars == {"1", "a", "b", "_", " "}

RECURSIVE StemsUpTo(_)
StemsUpTo(k) ==
  IF k = 0 THEN {<<>>}
  ELSE LET shorter == StemsUpTo(k - 1)
       IN  shorter \cup {Append(t, c) : t \in shorter, c \in StemChars}

\* The non-empty stems.
Stems == StemsUpTo(MaxStemLen) \ {<<>>}

InitParser ==
  /\ entry_stem \in Stems
  /\ title_tokens = <<>>
  /\ entry_title = <<>>
  /\ parsed = 0
  /\ BuildIdle
  /\ RewriterIdle

\* title_tokens = entry.stem.replace('_', ' ').split(" ")
SplitStem ==
  /\ pc = "idle"
  /\ entry_stem # <<>>
  /\ parsed = 0
  /\ title_tokens' = TitleTokens(entry_stem)
  /\ parsed' = 1
  /\ UNCHANGED <<build, rewriter, entry_stem, entry_title>>

\* title = ' '.join(title_tokens[1:])
JoinTitle ==
  /\ parsed = 1
  /\ entry_title' = title(title_tokens)
  /\ parsed' = 2
  /\ UNCHANGED <<build, rewriter, entry_stem, title_tokens>>

NextParser ==
  \/ SplitStem
  \/ JoinTitle

SpecParser == InitParser /\ [][NextParser]_vars

\* The name parser has run on entry_stem.
Parsed == parsed = 2

\* ------------------------------------------- properties of the rewriter

\* Whether the literal pat occurs somewhere in s.
Contains(s, pat) == \E i \in 1..Len(s) : MatchAt(s, pat, i)

StartsWith(s, pat) == MatchAt(s, pat, 1)

EndsWith(s, pat) == Len(pat) <= Len(s) /\ MatchAt(s, pat, Len(s) - Len(pat) + 1)

\* The marked references of a text as re.sub finds them, from the left and
\* not overlapping: the set of <<start, end>> of the matches.
RECURSIVE MarkedFrom(_, _)
MarkedFrom(s, i) ==
  IF i > Len(s) THEN {}
  ELSE LET j == ChapterRefEnd(s, i)
       IN  IF j > 0 THEN {<<i, j>>} \cup MarkedFrom(s, j + 1)
           ELSE MarkedFrom(s, i + 1)

Marked(s) == MarkedFrom(s, 1)

\* The first three substitutions.
Earlier(text) == FixRelativeLinks(FixSvg(FixImagePaths(text)))

\* The final "/"-separated segment of a path, lower-cased, every underscore
\* replaced by a hyphen.
Anchor(path) ==
  LET slashes == {i \in 1..Len(path) : path[i] = "/"}
      last == IF slashes = {} THEN 0 ELSE CHOOSE i \in slashes : \A j \in slashes : j <= i
      segment == SubSeq(path, last + 1, Len(path))
  IN  [i \in 1..Len(segment) |->
         IF segment[i] = "_" THEN "-" ELSE LowerChar(segment[i])]

\* The text read from the left: each marked reference ](!P) of the text
\* becomes ](#S), S the anchor of P as written in the text; the text
\* between the marked references is left to the first three substitutions.
RECURSIVE ResolvedAsWrittenFrom(_, _, _)
ResolvedAsWrittenFrom(s, i, between) ==
  IF i > Len(s) THEN Earlier(between)
  ELSE LET j == ChapterRefEnd(s, i)
       IN  IF j > 0
           THEN Earlier(between) \o <<"]", "(", "#">> \o Anchor(SubSeq(s, i + 3, j - 1))
                  \o <<")">> \o ResolvedAsWrittenFrom(s, j + 1, <<>>)
           ELSE ResolvedAsWrittenFrom(s, i + 1, Append(between, s[i]))

\* The same, S the anchor of P as the first three substitutions leave it.
RECURSIVE ResolvedFrom(_, _, _)
ResolvedFrom(s, i, between) ==
  IF i > Len(s) THEN Earlier(between)
  ELSE LET j == ChapterRefEnd(s, i)
       IN  IF j > 0
           THEN Earlier(between) \o <<"]", "(", "#">>
                  \o Anchor(Earlier(SubSeq(s, i + 3, j - 1)))
                  \o <<")">> \o ResolvedFrom(s, j + 1, <<>>)
           ELSE ResolvedFrom(s, i + 1, Append(between, s[i]))

ExampleAnchor ==
  <<"]", "(", "#", "s", "o", "m", "e", "-", "c", "h", "a", "p", "t", "e", "r", ")">>

\* The root-relative link step leaves the marked references where they are:
\* the text after three substitutions has as many of them as the source.
MarkedKept == Cardinality(Marked(Earlier(source))) = Cardinality(Marked(source))

\* C9 as claimed: every marked reference ](!P) of a text is rewritten into
\* ](#S) with S the final segment of P as written in the source, lower-cased,
\* underscores replaced by hyphens.
C9_AnchorOfPathAsWritten ==
  Rewritten => content = ResolvedAsWrittenFrom(source, 1, <<>>)

\* C9 amended: every marked reference ](!P) of a text is rewritten into ](#S)
\* with S the final segment of P as the three earlier substitutions leave it
\* (a ".svg" of P has become ".png"), lower-cased, underscores replaced by
\* hyphens; ](!/path/to/Some_Chapter) becomes ](#some-chapter); the earlier
\* substitutions neither remove nor add a marked reference.
C9_AnchorOfPathAfterEarlierSteps ==
  Rewritten =>
    /\ content = ResolvedFrom(source, 1, <<>>)
    /\ MarkedKept
    /\ source = ExampleReference => content = ExampleAnchor

\* A text with a marked reference whose path has a directory part, an
\* upper-case letter and an underscore has been rewritten.
C9_Witness ==
  /\ Rewritten
  /\ source = <<"]", "(", "!", "/", "a", "_", "B", ")">>
  /\ content = <<"]", "(", "#", "a", "-", "b", ")">>

\* The links and images of a text: the positions i of a "](" that a ")"
\* follows; the target runs from i + 2 up to the first ")".
LinkStarts(s) ==
  {i \in 1..Len(s) : MatchAt(s, <<"]", "(">>, i) /\ NextClose(s, i + 2) > 0}

Target(s, i) == SubSeq(s, i + 2, NextClose(s, i + 2) - 1)

\* The reference ](T) that starts at position i, as written.
Reference(s, i) == SubSeq(s, i, NextClose(s, i + 2))

\* Whether position i of s lies in a marked reference that starts before it.
InMarked(s, i) == \E m \in Marked(s) : m[1] < i /\ i <= m[2]

\* The rewritten text holds the reference of position i of the source in its
\* place: what precedes it and what follows it are rewritten on their own.
KeptInPlace(i) ==
  content = Rewrite(SubSeq(source, 1, i - 1)) \o Reference(source, i)
              \o Rewrite(From(source, NextClose(source, i + 2) + 1))

\* A link or image reference of the source: a "](" at position i with its
\* target up to the next ")", the target opening no further reference and
\* the whole not lying inside a marked reference ](!...).
References ==
  {i \in LinkStarts(source) :
     ~Contains(Target(source, i), <<"]", "(">>) /\ ~InMarked(source, i)}

\* C3 as claimed: a reference ](T) whose target T does not begin with "/" or
\* "!", is not in the root-absolute image directory and does not end in
\* ".svg" appears unchanged in the rewritten text.
C3_UnmatchedReferenceKept ==
  Rewritten =>
    \A i \in References :
      LET T == Target(source, i)
      IN  (/\ ~StartsWith(T, <<"/">>)
           /\ ~StartsWith(T, <<"!">>)
           /\ ~StartsWith(T, PatImages)
           /\ ~EndsWith(T, PatSvg))
          => Contains(content, Reference(source, i))

\* C3 amended: a reference ](T) whose target T does not begin with "/" or
\* "!" and contains neither "/images/" nor ".svg" appears unchanged, in its
\* place, in the rewritten text.
C3_ReferenceWithoutPatternKept ==
  Rewritten =>
    \A i \in References :
      LET T == Target(source, i)
      IN  (/\ ~StartsWith(T, <<"/">>)
           /\ ~StartsWith(T, <<"!">>)
           /\ ~Contains(T, PatImages)
           /\ ~Contains(T, PatSvg))
          => /\ Contains(content, Reference(source, i))
             /\ KeptInPlace(i)

\* A text with a plain reference and an image extension has been rewritten:
\* the extension has changed, the reference has not.
C3_Witness ==
  /\ Rewritten
  /\ source = <<".", "s", "v", "g", "]", "(", "a", "_", "B", ")">>
  /\ content = <<".", "p", "n", "g", "]", "(", "a", "_", "B", ")">>

\* ---------------------------------------- properties of the name parser

IsSeparator(c) == c = "_" \/ c = " "

\* The positions of the separators of a stem.
Separators(s) == {i \in 1..Len(s) : IsSeparator(s[i])}

\* The position of the k-th separator of s; 0 for k = 0 and Len(s) + 1 past
\* the last one.
Boundary(s, k) ==
  IF k = 0 THEN 0
  ELSE IF k > Cardinality(Separators(s)) THEN Len(s) + 1
  ELSE CHOOSE i \in Separators(s) :
         Cardinality({j \in Separators(s) : j < i}) = k - 1

\* The k-th token of s: what stands between two successive separators.
Token(s, k) == SubSeq(s, Boundary(s, k - 1) + 1, Boundary(s, k) - 1)

\* What follows the first separator of s, each underscore become a space.
AfterFirstSeparator(s) ==
  LET rest == SubSeq(s, Boundary(s, 1) + 1, Len(s))
  IN  [i \in 1..Len(rest) |-> IF rest[i] = "_" THEN " " ELSE rest[i]]

\* The stem is split into its tokens, the first the ordering token; the
\* title is the other tokens joined by single spaces, empty if there is none.
SplitAndJoined ==
  /\ Len(title_tokens) = Cardinality(Separators(entry_stem)) + 1
  /\ \A k \in 1..Len(title_tokens) : title_tokens[k] = Token(entry_stem, k)
  /\ prefix(<<>>, title_tokens) = Token(entry_stem, 1) \o <<".">>
  /\ Len(title_tokens) = 1 => entry_title = <<>>
  /\ Len(title_tokens) > 1 => entry_title = AfterFirstSeparator(entry_stem)
  /\ (/\ Len(title_tokens) = 3
      /\ \A i \in Separators(entry_stem) : entry_stem[i] = "_")
     => entry_title = Token(entry_stem, 2) \o <<" ">> \o Token(entry_stem, 3)

\* The title has no two consecutive spaces and no leading or trailing space,
\* and the ordering token is not empty.
SingleSpaced ==
  /\ ~Contains(entry_title, <<" ", " ">>)
  /\ ~StartsWith(entry_title, <<" ">>)
  /\ ~EndsWith(entry_title, <<" ">>)
  /\ title_tokens[1] # <<>>

\* The separators of a stem are single and neither lead nor end it.
SeparatorsSingle(s) ==
  /\ 1 \notin Separators(s)
  /\ Len(s) \notin Separators(s)
  /\ \A i \in Separators(s) : i + 1 \notin Separators(s)

\* C10 as claimed: for every non-empty name the parse succeeds, gives the
\* first token as ordering token and the others joined by single spaces as
\* title, and so the title has no double, leading or trailing space and the
\* ordering token is never empty.
C10_TitleSingleSpaced ==
  Parsed => SplitAndJoined /\ SingleSpaced

\* C10 amended: for every non-empty name the parse succeeds, gives the first
\* token as ordering token and the others joined by single spaces as title
\* (a one-token name an empty title, <token>_word1_word2 the title
\* "word1 word2"); the title has no double, leading or trailing space and
\* the ordering token is not empty when the separators of the name are
\* single and neither lead nor end it.
C10_TitleSingleSpacedForSingleSeparators ==
  Parsed =>
    /\ SplitAndJoined
    /\ SeparatorsSingle(entry_stem) => SingleSpaced

\* The name 1_a_b has been parsed into the title "a b".
C10_Witness ==
  /\ Parsed
  /\ entry_stem = <<"1", "_", "a", "_", "b">>
  /\ title_tokens[1] = <<"1">>
  /\ entry_title = <<"a", " ", "b">>

\* ----------------------------------------------- properties of the build

\* The tree of the language whose build is running.
CurrentTree == fs[LANGUAGES[lang]]

Files(tree) == {e \in tree : ~e.is_dir}

\* The ordering tokens of a path, the root-most ancestor first.
OrderingTokens(path) == [i \in 1..Len(path) |-> Token(stem(path[i]), 1)]

\* The tokens written one after the other, a dot behind each.
RECURSIVE Dotted(_)
Dotted(toks) ==
  IF toks = <<>> THEN <<>> ELSE toks[1] \o <<".">> \o Dotted(Tail(toks))

\* The title a name stands for.
TitleOf(name) ==
  IF Separators(stem(name)) = {} THEN <<>> ELSE AfterFirstSeparator(stem(name))

\* The fragment a file of a tree stands for.
Expected(f) ==
  [content |-> f.content,
   depth |-> Len(f.path) - 1,
   prefix |-> Dotted(OrderingTokens(f.path)),
   title |-> TitleOf(Name(f))]

\* All files of a tree have pairwise distinct prefixes.
DistinctPrefixes(tree) ==
  \A a, b \in Files(tree) : a # b => Expected(a).prefix # Expected(b).prefix

\* The top-level call of the walk has returned to generate_markdown_from_sources.
WalkReturned == pc = "assemble"

\* The merged document of the running language has been written.
Written == pc = "written"

\* C8: the collection a top-level call of the walk returns holds exactly one
\* fragment per file of the subtree of its root, none for a directory and
\* none of an earlier call; the depth of a fragment is the number of
\* directories between the root and its file, its prefix begins with the
\* prefix of the parent directory.
C8_WalkReturnsOwnFiles ==
  WalkReturned =>
    LET files == Files(CurrentTree)
    IN  /\ Len(markdown_files) = Cardinality(files)
        /\ \A f \in files :
             /\ Cardinality({i \in 1..Len(markdown_files) : markdown_files[i] = Expected(f)})
                  = Cardinality({g \in files : Expected(g) = Expected(f)})
             /\ \E i \in 1..Len(markdown_files) :
                  /\ markdown_files[i].content = f.content
                  /\ markdown_files[i].depth = Len(f.path) - 1
                  /\ StartsWith(markdown_files[i].prefix,
                                Dotted(OrderingTokens(SubSeq(f.path, 1, Len(f.path) - 1))))
                  /\ Len(markdown_files[i].prefix)
                       > Len(Dotted(OrderingTokens(SubSeq(f.path, 1, Len(f.path) - 1))))

\* The second top-level call has returned a file of a subdirectory, after a
\* first call that had collected files of its own.
C8_Witness ==
  /\ WalkReturned
  /\ lang = 2
  /\ Files(fs["en"]) # {}
  /\ \E i \in 1..Len(markdown_files) : markdown_files[i].depth >= 1

\* C6: the destination is opened and written only after every file of the
\* subtree has been read; when a read fails the run ends and the destination
\* holds what it held before the call.
C6_ReadFailureLeavesDestination ==
  /\ pc \in {"walk", "assemble"} => out = out_at_call
  /\ error = "read" => out = out_at_call
  /\ Written => Len(md_files) = Cardinality(Files(CurrentTree))

\* A read has failed after another file had been read, and the destination
\* still holds the earlier document.
C6_Witness ==
  /\ error = "read"
  /\ pc = "raised"
  /\ Len(markdown_files) >= 1
  /\ out = File(OldDocument)

\* C7 as claimed: when the build of one language fails, the build of every
\* other language is still performed.
C7_FailureDoesNotBlockOtherLanguage ==
  pc = "raised" => \A l \in 1..Len(LANGUAGES) : l # lang => l < lang

\* The section of a fragment with the substitutions applied to its content
\* only.
ContentOnlySection(entry) ==
  <<"#", " ">> \o entry.title \o <<"\n", "\n">> \o Rewrite(entry.content)
    \o <<"\n", "\n">>

RECURSIVE ContentOnlyDocument(_)
ContentOnlyDocument(files) ==
  IF files = <<>> THEN <<>>
  ELSE ContentOnlySection(files[1]) \o ContentOnlyDocument(Tail(files))

\* C2 as claimed: the heading of every section of the merged document is
\* "# " and the title as derived from the file name; the substitutions reach
\* the content only.
C2_HeadingIsTitle ==
  Written => out = File(ContentOnlyDocument(md_files))

\* The fragments of a set in ascending order of prefix.
RECURSIVE Ascending(_)
Ascending(fragments) ==
  IF fragments = {} THEN <<>>
  ELSE LET first == CHOOSE x \in fragments :
                      \A y \in fragments \ {x} : StrLess(x.prefix, y.prefix)
       IN  <<first>> \o Ascending(fragments \ {first})

\* C4: for a tree whose files have pairwise distinct prefixes the document
\* written is the same whatever the order in which iterdir() yields the
\* entries: its sections are those of the files in ascending order of prefix.
C4_DocumentIndependentOfTraversal ==
  (Written /\ DistinctPrefixes(CurrentTree)) =>
    /\ out = File(temp_markdown(Ascending({Expected(f) : f \in Files(CurrentTree)})))
    /\ \A i, j \in 1..Len(md_files) :
         i < j => StrLess(md_files[i].prefix, md_files[j].prefix)

\* A document has been written from files the walk had met in another order
\* than that of their prefixes.
C4_Witness ==
  /\ Written
  /\ DistinctPrefixes(CurrentTree)
  /\ Len(md_files) >= 2
  /\ markdown_files # md_files

\* Comparison of two sequences of ordering tokens, token by token, a proper
\* initial sequence coming first.
RECURSIVE TokensLess(_, _)
TokensLess(a, b) ==
  IF b = <<>> THEN FALSE
  ELSE IF a = <<>> THEN TRUE
  ELSE IF a[1] = b[1] THEN TokensLess(Tail(a), Tail(b))
  ELSE StrLess(a[1], b[1])

\* The section of file a stands before that of file b in the document.
Precedes(a, b) ==
  \E i, j \in 1..Len(md_files) :
    /\ i < j
    /\ md_files[i] = Expected(a)
    /\ md_files[j] = Expected(b)

\* Letters and digits.
IsAlphanumeric(c) ==
  \/ Ord[c] >= Ord["0"] /\ Ord[c] <= Ord["9"]
  \/ Ord[c] >= Ord["A"] /\ Ord[c] <= Ord["Z"]
  \/ Ord[c] >= Ord["a"] /\ Ord[c] <= Ord["z"]

\* Every ordering token of the tree is made of letters and digits.
AlphanumericTokens(tree) ==
  \A e \in tree :
    LET tok == Token(stem(Name(e)), 1)
    IN  \A i \in 1..Len(tok) : IsAlphanumeric(tok[i])

\* C5 as claimed: for a tree with pairwise distinct prefixes, file A stands
\* before file B in the document exactly when the ordering tokens of A come
\* before those of B, compared token by token.
C5_DocumentOrderIsTokenOrder ==
  (Written /\ DistinctPrefixes(CurrentTree)) =>
    \A a, b \in Files(CurrentTree) :
      a # b => (Precedes(a, b) <=> TokensLess(OrderingTokens(a.path), OrderingTokens(b.path)))

\* C5 amended: the same for a tree whose ordering tokens are made of letters
\* and digits, the tokens compared as strings.
C5_DocumentOrderIsTokenOrderForAlphanumericTokens ==
  (Written /\ DistinctPrefixes(CurrentTree) /\ AlphanumericTokens(CurrentTree)) =>
    \A a, b \in Files(CurrentTree) :
      a # b => (Precedes(a, b) <=> TokensLess(OrderingTokens(a.path), OrderingTokens(b.path)))

\* A document has been written with the file of a subdirectory before a
\* root file whose ordering token is longer than that of the subdirectory
\* and begins with it; all ordering tokens are made of digits.
C5_Witness ==
  /\ Written
  /\ DistinctPrefixes(CurrentTree)
  /\ AlphanumericTokens(CurrentTree)
  /\ \E a, b \in Files(CurrentTree) :
       /\ Len(a.path) = 1
       /\ Len(b.path) = 2
       /\ StartsWith(OrderingTokens(a.path)[1], OrderingTokens(b.path)[1])
       /\ Precedes(b, a)

\* The tree of the end-to-end scenario: 1_Introduction.md and 2_Setup/ with
\* 1_Install.md.
ScenarioTree ==
  { FileEntry(<<IntroductionMd>>, IntroductionText),
    DirEntry(<<SetupDir>>),
    FileEntry(<<SetupDir, InstallMd>>, InstallText) }

\* The first position at or after from where pat occurs in s, 0 if none.
FirstAt(s, pat, from) ==
  LET at == {i \in from..Len(s) : MatchAt(s, pat, i)}
  IN  IF at = {} THEN 0 ELSE CHOOSE i \in at : \A j \in at : i <= j

\* The parts occur in s one after the other, from position from on.
RECURSIVE ContainsInOrder(_, _, _)
ContainsInOrder(s, parts, from) ==
  IF parts = <<>> THEN TRUE
  ELSE LET i == FirstAt(s, parts[1], from)
       IN  i > 0 /\ ContainsInOrder(s, Tail(parts), i + Len(parts[1]))

HeadingIntroduction ==
  <<"#", " ", "I", "n", "t", "r", "o", "d", "u", "c", "t", "i", "o", "n">>
HeadingInstall == <<"#", " ", "I", "n", "s", "t", "a", "l", "l">>
HelloInstall ==
  <<"H", "e", "l", "l", "o", " ", "[", "t", "h", "e", "r", "e", "]", "(", "#",
    "1", "-", "i", "n", "s", "t", "a", "l", "l", ")">>
HelloSetup ==
  <<"H", "e", "l", "l", "o", " ", "[", "t", "h", "e", "r", "e", "]", "(", "#",
    "2", "-", "s", "e", "t", "u", "p", ")">>

\* C1 as claimed: the document of the scenario holds, in this order,
\* "# Introduction", "Hello [there](#1-install)", "# Install" and
\* "Install steps.", whatever the order of iteration.
C1_ScenarioResolvesToInstall ==
  (Written /\ CurrentTree = ScenarioTree) =>
    ContainsInOrder(out.text, <<HeadingIntroduction, HelloInstall, HeadingInstall, InstallText>>, 1)

\* C1 amended: the document of the scenario holds, in this order,
\* "# Introduction", "Hello [there](#2-setup)", "# Install" and
\* "Install steps.", whatever the order of iteration.
C1_ScenarioResolvesToSetup ==
  (Written /\ CurrentTree = ScenarioTree) =>
    ContainsInOrder(out.text, <<HeadingIntroduction, HelloSetup, HeadingInstall, InstallText>>, 1)

\* The document of the scenario has been written after a walk that met the
\* directory 2_Setup before the file 1_Introduction.md.
C1_Witness ==
  /\ Written
  /\ CurrentTree = ScenarioTree
  /\ markdown_files[1].content = InstallText

====
